---- MODULE Spec2Model ----
(***************************************************************************)
(* A state-machine model of the SIMA init supervisor                       *)
(* (sima-init/src/service.rs, sima-init/src/ipc.rs).                       *)
(*                                                                         *)
(* One task owns everything: ServiceManager::event_loop selects one ready  *)
(* event source and runs its arm to completion, INCLUDING the inline       *)
(* `handle_client(stream, &cmd_tx).await` of the accept arm and the inline *)
(* `perform_shutdown(..).await` of the power/signal arms.  While an arm is *)
(* suspended in one of those awaits no other arm of the select is polled.  *)
(* The variable pc is the position of that single task.                    *)
(*                                                                         *)
(* The kernel (children exiting, orphans being reparented, termination     *)
(* signals being sent)      and the clients are the environment.           *)
(***************************************************************************)
EXTENDS Integers, Sequences, FiniteSets, TLC

\* ------------------------------------------------------------------ bounds
\* Largest process identifier the kernel hands out (pid 1 is the manager).
MaxPid == 3
\* Clients connect only while fewer than MaxQueued commands are waiting.
MaxQueued == 1

\* ------------------------------------------------------- program constants
\* mpsc::channel::<IpcCommand>(32)
QueueCapacity == 32
\* Option::<Pid>::None
None == 0

\* ------------------------------------------------------------- value sets
\* The configured services (keys of configs, fixed by ServiceManager::new).
Configs == {"a", "b"}
\* A name no service is configured under.
Unknown == "x"
ReqNames == Configs \cup {Unknown}
Pids == 2..MaxPid

NoName == "-"
Cmd(op, name) == [op |-> op, name |-> name]
NamedOps == {"Start", "Stop", "Restart"}
PowerOps == {"Poweroff", "Reboot", "SoftReboot"}
\* sima_proto::Request / ipc::IpcCommand (Status carries the handler's one-shot sender)
AllRequests ==
    {Cmd(op, n) : op \in NamedOps, n \in ReqNames}
        \cup {Cmd(op, NoName) : op \in {"Status"} \cup PowerOps}
\* The requests clients send in the base specification.
Requests ==
    {Cmd("Start", "a"), Cmd("Stop", "a"), Cmd("Restart", "b"),
     Cmd("Status", NoName), Cmd("Poweroff", NoName)}
\* The requests of the liveness specification.
LiveRequests ==
    {Cmd("Restart", "a"), Cmd("Status", NoName), Cmd("Poweroff", NoName)}
\* The single request of the queue-saturation specification.
FloodRequests == {Cmd("Stop", Unknown)}
\* One request of every kind but Status: the three power commands, and the
\* three service commands on a name that is not configured.
OpsRequests ==
    {Cmd(op, Unknown) : op \in NamedOps} \cup {Cmd(op, NoName) : op \in PowerOps}
\* Clients that start and stop one service.
TableRequests == {Cmd("Start", "a"), Cmd("Stop", "a")}

TermSignals == {"SIGTERM", "SIGINT"}
\* Task positions at which the process image is gone or the loop has returned.
Terminal == {"exited", "halted", "reexec", "panicked"}

\* ------------------------------------------------ HashMap<Pid, String> ops
EmptyMap == [p \in {} |-> NoName]
MapInsert(pm, p, n) == [q \in (DOMAIN pm) \cup {p} |-> IF q = p THEN n ELSE pm[q]]
MapRemove(pm, p) == [q \in (DOMAIN pm) \ {p} |-> pm[q]]

\* ServiceState::default()
DefaultState == [pid |-> None, status |-> "Stopped"]

\* Result<Pid> of spawn_process.  chld: the call left a SIGCHLD behind.
SpawnOk(p) == [ok |-> TRUE, pid |-> p, chld |-> FALSE]
\* Command::spawn fails before a child exists (fork fails).
SpawnErr == [ok |-> FALSE, pid |-> None, chld |-> FALSE]
\* Command::spawn fails in the child (exec of /bin/sh fails): the child
\* exits and spawn() collects it itself, but its SIGCHLD has been raised.
SpawnExecErr == [ok |-> FALSE, pid |-> None, chld |-> TRUE]
\* What spawn_process can return given the kernel's process table pr:
\* any identifier not in use (alive or zombie), or an error.
SpawnOutcomes(pr) ==
    {SpawnErr, SpawnExecErr} \cup {SpawnOk(p) : p \in {q \in Pids : pr[q] = "free"}}

\* ------------------------------------------------------ service.rs, pure
\* A table is [states |-> name -> ServiceState, pid_map |-> pid -> name,
\*             spawn |-> "none" | "ok" | "err"  (what the launcher did)].
Table(S, PM, sp) == [states |-> S, pid_map |-> PM, spawn |-> sp]

\* launch_service without the `status == Running` early return.
launch_service_unguarded(name, S, PM, r) ==
    IF r.ok
    THEN Table([S EXCEPT ![name] = [pid |-> r.pid, status |-> "Running"]],
               MapInsert(PM, r.pid, name), "ok")
    ELSE Table(S, PM, "err")

\* ServiceManager::launch_service; r is the result spawn_process returns if called.
launch_service(name, S, PM, r) ==
    IF S[name].status = "Running"
    THEN Table(S, PM, "none")
    ELSE IF r.ok
         THEN Table([S EXCEPT ![name] = [pid |-> r.pid, status |-> "Running"]],
                    MapInsert(PM, r.pid, name), "ok")
         ELSE Table(S, PM, "err")

\* start_service that takes a name missing from the configuration for a new
\* service: it adds a state for it and launches it.
start_service_autocreates(name, S, PM, r) ==
    LET S1 == [n \in DOMAIN S \cup {name} |->
                  IF n \in DOMAIN S THEN S[n] ELSE DefaultState]
    IN launch_service(name, S1, PM, r)

\* ServiceManager::start_service
start_service(name, S, PM, r) ==
    IF name \notin Configs
    THEN Table(S, PM, "none")
    ELSE IF name \notin DOMAIN S
         THEN Table(S, PM, "none")
         ELSE launch_service(name, S, PM, r)

\* stop_service that signals whatever the pid field holds, set or not.
stop_service_unconditional(name, S) ==
    IF name \notin DOMAIN S THEN {} ELSE {S[name].pid}

\* ServiceManager::stop_service: the pids whose process group -pid is sent SIGTERM.
\* It changes nothing in the table.
stop_service(name, S) ==
    IF name \notin DOMAIN S
    THEN {}
    ELSE IF S[name].pid = None THEN {} ELSE {S[name].pid}

\* restart_service that spawns a new process whether or not the old one
\* has been reaped.
restart_service_respawns(name, S, PM, r) ==
    IF name \in Configs /\ name \in DOMAIN S
    THEN launch_service_unguarded(name, S, PM, r)
    ELSE Table(S, PM, "none")

\* ServiceManager::restart_service: stop_service, then start_service.
\* stop_service only sends a signal (see CommandSignals), so the table that
\* results is the one start_service produces.
restart_service(name, S, PM, r) == start_service(name, S, PM, r)

\* handle_process_exit that leaves the pid in the service's state.
handle_process_exit_keeps_pid(p, S, PM) ==
    IF p \in DOMAIN PM
    THEN Table([S EXCEPT ![PM[p]].status = "Stopped"], MapRemove(PM, p), "none")
    ELSE Table(S, PM, "none")

\* handle_process_exit that takes the wait status of a pid it does not track
\* for the exit of every service it does track.
handle_process_exit_orphan_clears(p, S, PM) ==
    IF p \in DOMAIN PM
    THEN Table([S EXCEPT ![PM[p]] = DefaultState], MapRemove(PM, p), "none")
    ELSE Table([n \in DOMAIN S |-> DefaultState], EmptyMap, "none")

\* ServiceManager::handle_process_exit for a wait status of pid p.
handle_process_exit(p, S, PM) ==
    IF p \in DOMAIN PM
    THEN LET name == PM[p] IN
         IF name \in DOMAIN S
         THEN Table([S EXCEPT ![name] = [pid |-> None, status |-> "Stopped"]],
                    MapRemove(PM, p), "none")
         ELSE Table(S, MapRemove(PM, p), "none")
    ELSE Table(S, PM, "none")

\* reap_zombies without the loop: one waitpid, one wait status handled.
reap_zombies_once(Z, S, PM) ==
    IF Z = {}
    THEN Table(S, PM, "none")
    ELSE handle_process_exit(CHOOSE q \in Z : TRUE, S, PM)

\* ServiceManager::reap_zombies: waitpid(-1, WNOHANG) until StillAlive/ECHILD,
\* i.e. once for every child in Z (those that have exited), in the kernel's order.
RECURSIVE reap_zombies(_, _, _)
reap_zombies(Z, S, PM) ==
    IF Z = {}
    THEN Table(S, PM, "none")
    ELSE LET p == CHOOSE q \in Z : TRUE
             t == handle_process_exit(p, S, PM)
         IN reap_zombies(Z \ {p}, t.states, t.pid_map)

\* get_status that lists the Running services only.
get_status_running_only(S) ==
    {[name |-> n, pid |-> S[n].pid, running |-> TRUE]
        : n \in {m \in Configs \cap DOMAIN S : S[m].status = "Running"}}

\* ServiceManager::get_status
get_status(S) ==
    {[name |-> n,
      pid |-> IF n \in DOMAIN S THEN S[n].pid ELSE None,
      running |-> IF n \in DOMAIN S THEN S[n].status = "Running" ELSE FALSE]
        : n \in Configs}

\* broadcast_signal that signals every process group, tracked or not.
broadcast_signal_everyone(PM) == Pids

\* ServiceManager::broadcast_signal: the pids whose group -pid is signalled.
broadcast_signal(PM) == DOMAIN PM


\* ------------------------------------------------------------------ state
VARIABLES
    states,     \* ServiceManager.states : name -> [pid, status]
    pid_map,    \* ServiceManager.pid_map : pid -> name (the reverse index)
    proc,       \* kernel: pid -> "free" | "alive" | "zombie" (children of pid 1)
    sigchld,    \* a coalesced child-exit notification is pending on the stream
    queue,      \* the mpsc command queue (cmd_tx -> cmd_rx)
    pc,         \* position of the single supervisor task
    todo,       \* services run() has not launched yet
    cause,      \* what entered perform_shutdown ("none" before)
    platform,   \* the platform primitive invoked after the shutdown pass
    bcastTerm,  \* pids whose group perform_shutdown sent SIGTERM
    bcastKill,  \* pids whose group perform_shutdown sent SIGKILL
    resp,       \* response written on the connection being served ("none" yet)
    lastCmd,    \* the last command handle_ipc_command applied, and what it did
    lastReap    \* the wait statuses reap_zombies handled in the step into this state

vars == <<states, pid_map, proc, sigchld, queue, pc, todo, cause,
          platform, bcastTerm, bcastKill, resp, lastCmd, lastReap>>

tableVars == <<states, pid_map>>
shutdownVars == <<cause, platform, bcastTerm, bcastKill>>
clientVars == <<queue, resp>>

NoCmd ==
    [op |-> "none", name |-> NoName, pid |-> None, spawn |-> "none", term |-> {},
     report |-> {}]
\* The last step did not call reap_zombies.
NoReap == [called |-> FALSE, tracked |-> 0, orphans |-> 0]
\* reap_zombies was called when waitpid had the children Z to return: how many
\* of them handle_process_exit found in the reverse index PM, how many not.
ReapRecord(Z, PM) ==
    [called |-> TRUE,
     tracked |-> Cardinality(Z \cap DOMAIN PM),
     orphans |-> Cardinality(Z \ DOMAIN PM)]

\* ServiceManager::new, then the start of run()
Init ==
    /\ states = [n \in Configs |-> DefaultState]
    /\ pid_map = EmptyMap
    /\ proc = [p \in Pids |-> "free"]
    /\ sigchld = FALSE
    /\ queue = <<>>
    /\ pc = "startup"
    /\ todo = Configs
    /\ cause = "none"
    /\ platform = "none"
    /\ bcastTerm = {}
    /\ bcastKill = {}
    /\ resp = "none"
    /\ lastCmd = NoCmd
    /\ lastReap = NoReap

Zombies(pr) == {p \in Pids : pr[p] = "zombie"}
Alive(pr) == {p \in Pids : pr[p] = "alive"}
\* The process table once the children K have exited.
Died(pr, K) == [p \in Pids |-> IF p \in K THEN "zombie" ELSE pr[p]]
\* The kernel frees the identifier of every child waitpid returned.
Reaped(pr) == [p \in Pids |-> IF pr[p] = "zombie" THEN "free" ELSE pr[p]]
Spawned(pr, t, r) == IF t.spawn = "ok" THEN [pr EXCEPT ![r.pid] = "alive"] ELSE pr

\* The select! of event_loop is being polled.
AtSelectOrShutdown == pc \in {"select", "shutdown_wait"}
AtSelect == pc = "select"

\* --------------------------------------------------------------- kernel
\* A child of pid 1 (a service or a reparented orphan) exits.  The SIGCHLD
\* stream is registered in event_loop, after run() launched the services.
ChildExit(p) ==
    /\ pc \notin Terminal
    /\ proc[p] = "alive"
    /\ proc' = [proc EXCEPT ![p] = "zombie"]
    /\ sigchld' = IF pc = "startup" THEN sigchld ELSE TRUE
    /\ UNCHANGED <<tableVars, clientVars, pc, todo, shutdownVars, lastCmd>>
    /\ lastReap' = NoReap

\* A child stops or continues: the kernel raises SIGCHLD although
\* waitpid(-1, WNOHANG) has no status to return for it.
ChildStopped(p) ==
    /\ pc \notin Terminal \cup {"startup"}
    /\ proc[p] = "alive"
    /\ ~sigchld
    /\ sigchld' = TRUE
    /\ UNCHANGED <<tableVars, proc, clientVars, pc, todo, shutdownVars, lastCmd>>
    /\ lastReap' = NoReap

\* A process whose parent died is reparented to pid 1.
OrphanAppears(p) ==
    /\ pc \notin Terminal
    /\ proc[p] = "free"
    /\ proc' = [proc EXCEPT ![p] = "alive"]
    /\ UNCHANGED <<tableVars, sigchld, clientVars, pc, todo, shutdownVars, lastCmd>>
    /\ lastReap' = NoReap

\* ------------------------------------------------------------- startup
\* One iteration of the loop of run(): launch_service for a configured service.
StartupLaunch(n, r) ==
    /\ pc = "startup"
    /\ n \in todo
    /\ LET t == launch_service(n, states, pid_map, r) IN
        /\ states' = t.states
        /\ pid_map' = t.pid_map
        /\ proc' = Spawned(proc, t, r)
    /\ todo' = todo \ {n}
    /\ UNCHANGED <<sigchld, clientVars, pc, shutdownVars, lastCmd>>
    /\ lastReap' = NoReap

\* event_loop up to its `loop`: the channel, the IPC server and the signal
\* streams are set up.  IpcServer::new()? and tokio_signal(..)? return the
\* error to run() and its caller: the task is gone, no shutdown pass has
\* run and the services are left as they are.
EventLoopStart ==
    /\ pc = "startup"
    /\ todo = {}
    /\ \E ok \in BOOLEAN : pc' = IF ok THEN "select" ELSE "exited"
    /\ UNCHANGED <<tableVars, proc, sigchld, clientVars, todo, shutdownVars, lastCmd>>
    /\ lastReap' = NoReap

\* ------------------------------------------------------------ shutdown
\* What follows perform_shutdown in its caller: break (signals), reboot()
\* then `true` (Poweroff, Reboot), exec_self (SoftReboot).  ok: the
\* primitive succeeded (the machine halts / the image is replaced).
PostShutdownPlatform(c) ==
    CASE c = "Poweroff" -> "poweroff"
      [] c = "Reboot" -> "reboot"
      [] c = "SoftReboot" -> "exec"
      [] OTHER -> "none"
PostShutdownPc(c, ok) ==
    CASE c \in {"Poweroff", "Reboot"} -> IF ok THEN "halted" ELSE "exited"
      [] c = "SoftReboot" -> IF ok THEN "reexec" ELSE "panicked"
      [] OTHER -> "exited"

\* A shutdown that invokes the platform primitive right after the SIGTERM
\* broadcast, before the wait for the services.
BeginShutdown_platform_first(c, ok) ==
    /\ cause' = c
    /\ bcastTerm' = broadcast_signal(pid_map)
    /\ platform' = PostShutdownPlatform(c)
    /\ pc' = IF pid_map = EmptyMap THEN PostShutdownPc(c, ok) ELSE "shutdown_wait"
    /\ UNCHANGED <<tableVars, proc, sigchld, todo, bcastKill, resp>>

\* perform_shutdown up to its first suspension: broadcast SIGTERM; if the
\* reverse index is empty the wait returns at once and the caller goes on.
BeginShutdown(c, ok) ==
    /\ cause' = c
    /\ bcastTerm' = broadcast_signal(pid_map)
    /\ IF pid_map = EmptyMap
       THEN /\ pc' = PostShutdownPc(c, ok)
            /\ platform' = PostShutdownPlatform(c)
       ELSE /\ pc' = "shutdown_wait"
            /\ platform' = platform
    /\ UNCHANGED <<tableVars, proc, sigchld, todo, bcastKill, resp>>

\* A wait loop that returns after the first notification it reaps, without
\* re-checking that the reverse index is empty.
ShutdownChild_no_recheck ==
    /\ pc = "shutdown_wait"
    /\ sigchld
    /\ sigchld' = FALSE
    /\ LET t == reap_zombies(Zombies(proc), states, pid_map) IN
        /\ states' = t.states
        /\ pid_map' = t.pid_map
        /\ proc' = Reaped(proc)
        /\ lastReap' = ReapRecord(Zombies(proc), pid_map)
    /\ \E ok \in BOOLEAN :
        /\ pc' = PostShutdownPc(cause, ok)
        /\ platform' = PostShutdownPlatform(cause)
    /\ UNCHANGED <<clientVars, todo, cause, bcastTerm, bcastKill, lastCmd>>

\* perform_shutdown, the wait loop: sigchld.recv() returned; reap; re-check.
ShutdownChild ==
    /\ pc = "shutdown_wait"
    /\ sigchld
    /\ \E K \in SUBSET Alive(proc) :
        LET died == Died(proc, K)
            t == reap_zombies(Zombies(died), states, pid_map)
        IN
        /\ states' = t.states
        /\ pid_map' = t.pid_map
        /\ proc' = Reaped(died)
        /\ lastReap' = ReapRecord(Zombies(died), pid_map)
        /\ sigchld' = (K # {})
        /\ \E ok \in BOOLEAN :
            IF t.pid_map = EmptyMap
            THEN /\ pc' = PostShutdownPc(cause, ok)
                 /\ platform' = PostShutdownPlatform(cause)
            ELSE /\ pc' = "shutdown_wait"
                 /\ platform' = platform
    /\ UNCHANGED <<clientVars, todo, cause, bcastTerm, bcastKill, lastCmd>>

\* perform_shutdown whose wait loop is not wrapped in a timeout: it returns
\* only once the reverse index is empty.
ShutdownWithoutDeadline ==
    /\ pc = "shutdown_wait"
    /\ pid_map = EmptyMap
    /\ \E ok \in BOOLEAN :
        /\ pc' = PostShutdownPc(cause, ok)
        /\ platform' = PostShutdownPlatform(cause)
    /\ UNCHANGED <<tableVars, proc, sigchld, clientVars, todo, cause, bcastTerm,
                   bcastKill, lastCmd>>
    /\ lastReap' = NoReap

\* perform_shutdown, the timeout fired: broadcast SIGKILL, reap once, return.
\* K: the killed processes that have already died when waitpid is called.
ShutdownDeadline ==
    /\ pc = "shutdown_wait"
    /\ bcastKill' = broadcast_signal(pid_map)
    /\ \E K \in SUBSET {p \in DOMAIN pid_map : proc[p] = "alive"} :
        LET died == Died(proc, K)
            t == reap_zombies(Zombies(died), states, pid_map)
        IN  /\ states' = t.states
            /\ pid_map' = t.pid_map
            /\ proc' = Reaped(died)
            /\ lastReap' = ReapRecord(Zombies(died), pid_map)
            /\ sigchld' = (sigchld \/ K # {})
    /\ \E ok \in BOOLEAN :
        /\ pc' = PostShutdownPc(cause, ok)
        /\ platform' = PostShutdownPlatform(cause)
    /\ UNCHANGED <<clientVars, todo, cause, bcastTerm, lastCmd>>

\* ------------------------------------------------------ the select arms
\* `_ = sigchld.recv() => self.reap_zombies()`
SigchldArm ==
    /\ AtSelect
    /\ sigchld
    /\ \E K \in SUBSET Alive(proc) :
        LET died == Died(proc, K)
            t == reap_zombies(Zombies(died), states, pid_map)
        IN  /\ states' = t.states
            /\ pid_map' = t.pid_map
            /\ proc' = Reaped(died)
            /\ lastReap' = ReapRecord(Zombies(died), pid_map)
            /\ sigchld' = (K # {})
    /\ UNCHANGED <<clientVars, pc, todo, shutdownVars, lastCmd>>

\* `_ = sigterm.recv()` / `_ = sigint.recv()`: the platform has sent the
\* manager signal s and the select takes that arm: perform_shutdown, then break.
SignalArm(s) ==
    /\ AtSelect
    /\ BeginShutdown(s, TRUE)
    /\ UNCHANGED <<queue, lastCmd>>
    /\ lastReap' = NoReap

\* handle_ipc_command whose Stop arm also marks the service Stopped and drops
\* its reverse-index entry instead of leaving that to the reaper.
handle_ipc_command_stop_clears(cmd, S, PM, r) ==
    CASE cmd.op = "Start" -> start_service(cmd.name, S, PM, r)
      [] cmd.op = "Restart" -> restart_service(cmd.name, S, PM, r)
      [] cmd.op = "Stop" /\ cmd.name \in DOMAIN S ->
            Table([S EXCEPT ![cmd.name] = DefaultState],
                  MapRemove(PM, S[cmd.name].pid), "none")
      [] OTHER -> Table(S, PM, "none")

\* handle_ipc_command on the service table (the power commands act through
\* perform_shutdown; Status sends get_status on the one-shot channel).
\* A Status command enters the queue only from a handler that then awaits
\* the reply inside the accept arm, so the select never gets to dequeue one.
handle_ipc_command(cmd, S, PM, r) ==
    CASE cmd.op = "Start" -> start_service(cmd.name, S, PM, r)
      [] cmd.op = "Restart" -> restart_service(cmd.name, S, PM, r)
      [] OTHER -> Table(S, PM, "none")

\* The groups handle_ipc_command sends SIGTERM (stop_service).
CommandSignals(cmd, S) ==
    IF cmd.op \in {"Stop", "Restart"} THEN stop_service(cmd.name, S) ELSE {}

Applied(cmd, S, t) ==
    [op |-> cmd.op, name |-> cmd.name,
     pid |-> IF cmd.name \in DOMAIN S THEN S[cmd.name].pid ELSE None,
     spawn |-> t.spawn, term |-> CommandSignals(cmd, S),
     report |-> IF cmd.op = "Status" THEN get_status(S) ELSE {}]

\* self.handle_ipc_command(cmd, sigchld).await and what the loop does with
\* the boolean it returns.
ApplyCommand(cmd) ==
    /\ IF cmd.op \in PowerOps
       THEN /\ \E ok \in BOOLEAN : BeginShutdown(cmd.op, ok)
            /\ lastCmd' = Applied(cmd, states, Table(states, pid_map, "none"))
       ELSE \E r \in SpawnOutcomes(proc) :
               LET t == handle_ipc_command(cmd, states, pid_map, r) IN
                   /\ states' = t.states
                   /\ pid_map' = t.pid_map
                   /\ proc' = Spawned(proc, t, r)
                   /\ lastCmd' = Applied(cmd, states, t)
                   /\ sigchld' = (sigchld \/ (t.spawn = "err" /\ r.chld))
                   /\ UNCHANGED <<pc, todo, shutdownVars, resp>>
    /\ lastReap' = NoReap

\* `Some(cmd) = cmd_rx.recv() => if self.handle_ipc_command(cmd, ..).await { break }`
CommandArm ==
    /\ AtSelect
    /\ queue # <<>>
    /\ queue' = Tail(queue)
    /\ ApplyCommand(Head(queue))

\* handle_ipc_command called with IpcCommand::Status on the table as it is,
\* the way a caller that holds the receiver itself would (no handler of
\* this program can: see handle_ipc_command above).
StatusCall ==
    /\ AtSelect
    /\ ApplyCommand(Cmd("Status", NoName))
    /\ UNCHANGED queue

\* `result = ipc_server.accept() => handle_client(stream, &cmd_tx).await`:
\* a client has connected; the arm awaits its bytes in stream.read.
AcceptArm(limit) ==
    /\ AtSelect
    /\ Len(queue) < limit
    /\ pc' = "read"
    /\ resp' = "none"
    /\ UNCHANGED <<tableVars, proc, sigchld, queue, todo, shutdownVars, lastCmd>>
    /\ lastReap' = NoReap

\* ------------------------------------------------- handle_client (ipc.rs)
\* stream.read returned 0: `return Ok(())`, nothing is written.
ClientEof ==
    /\ pc = "read"
    /\ pc' = "select"
    /\ UNCHANGED <<tableVars, proc, sigchld, clientVars, todo, shutdownVars, lastCmd>>
    /\ lastReap' = NoReap

\* A handler that takes bytes it cannot decode for a Stop of no service:
\* it pushes the command and answers Ok.
ClientGarbage_as_request(gone) ==
    /\ pc = "read"
    /\ Len(queue) < QueueCapacity
    /\ queue' = Append(queue, Cmd("Stop", Unknown))
    /\ pc' = "select"
    /\ resp' = IF gone THEN resp ELSE "Ok"
    /\ UNCHANGED <<tableVars, proc, sigchld, todo, shutdownVars, lastCmd>>
    /\ lastReap' = NoReap

\* The bytes do not decode: Response::Error("Invalid request: ..") is
\* written.  gone: the client has closed its end, stream.write_all fails
\* and handle_client returns the error with nothing written.
ClientGarbage(gone) ==
    /\ pc = "read"
    /\ pc' = "select"
    /\ resp' = IF gone THEN resp ELSE "InvalidRequest"
    /\ UNCHANGED <<tableVars, proc, sigchld, queue, todo, shutdownVars, lastCmd>>
    /\ lastReap' = NoReap

\* A handler that looks the service name up before it pushes the command
\* and answers Error for a name that is not configured.
ClientRequest_checks_name(req, gone) ==
    /\ pc = "read"
    /\ Len(queue) < QueueCapacity
    /\ pc' = "select"
    /\ queue' = Append(queue, req)
    /\ resp' = IF gone THEN resp
               ELSE IF req.op \in NamedOps /\ req.name \notin Configs
                    THEN "Error" ELSE "Ok"
    /\ UNCHANGED <<tableVars, proc, sigchld, todo, shutdownVars, lastCmd>>
    /\ lastReap' = NoReap

\* The bytes decode as req: process_request.  cmd_tx.send(..).await
\* completes when the queue has room and otherwise suspends the task until
\* it has; for Status the task then awaits the one-shot receiver.
\* gone: the client has closed its end; the command is pushed all the same,
\* then stream.write_all fails and nothing is written.
ClientRequest(req, gone) ==
    /\ pc = "read"
    /\ IF Len(queue) < QueueCapacity
       THEN /\ queue' = Append(queue, req)
            /\ IF req.op = "Status"
               THEN pc' = "await_reply" /\ resp' = resp
               ELSE pc' = "select" /\ resp' = IF gone THEN resp ELSE "Ok"
       ELSE /\ pc' = "send_wait"
            /\ UNCHANGED <<queue, resp>>
    /\ UNCHANGED <<tableVars, proc, sigchld, todo, shutdownVars, lastCmd>>
    /\ lastReap' = NoReap

\* --------------------------------------------------------- specifications
\* What the kernel does to the children the manager has.
Children ==
    \/ \E p \in Pids : ChildExit(p)
    \/ \E p \in Pids : ChildStopped(p)

\* The same on a machine where other processes lose their parent too.
Kernel ==
    \/ Children
    \/ \E p \in Pids : OrphanAppears(p)

Supervisor ==
    \/ \E n \in Configs : \E r \in SpawnOutcomes(proc) : StartupLaunch(n, r)
    \/ EventLoopStart
    \/ SigchldArm
    \/ CommandArm
    \/ \E s \in TermSignals : SignalArm(s)
    \/ ShutdownChild
    \/ ShutdownDeadline

Clients(R, limit) ==
    \/ AcceptArm(limit)
    \/ ClientEof
    \/ \E gone \in BOOLEAN : ClientGarbage(gone)
    \/ \E req \in R : \E gone \in BOOLEAN : ClientRequest(req, gone)

Next == Kernel \/ Supervisor \/ Clients(Requests, MaxQueued)
Spec == Init /\ [][Next]_vars

\* What the runtime guarantees: run() proceeds, the shutdown timer fires, a
\* pending notification wakes the wait loop, and select!, which picks at
\* random among the ready arms, does not starve an arm that is ready again
\* and again.  Clients and the kernel are under no obligation.
Fairness ==
    /\ WF_vars(\E n \in Configs : \E r \in SpawnOutcomes(proc) : StartupLaunch(n, r))
    /\ WF_vars(EventLoopStart)
    /\ WF_vars(ShutdownChild)
    /\ WF_vars(ShutdownDeadline)
    /\ SF_vars(SigchldArm)
    /\ SF_vars(CommandArm)

NextLive == Children \/ Supervisor \/ Clients(LiveRequests, MaxQueued)
LiveSpec == Init /\ [][NextLive]_vars /\ Fairness

\* Clients keep connecting whatever the queue holds.
NextFlood == Kernel \/ Supervisor \/ Clients(FloodRequests, QueueCapacity + 1)
FloodSpec == Init /\ [][NextFlood]_vars

\* Every kind of command reaches the supervisor.
NextOps == Children \/ Supervisor \/ Clients(OpsRequests, MaxQueued)
OpsSpec == Init /\ [][NextOps]_vars

\* handle_ipc_command is applied to Status on every table the supervisor
\* can hold at the select.
NextStatus == Children \/ Supervisor \/ Clients(TableRequests, MaxQueued) \/ StatusCall
StatusSpec == Init /\ [][NextStatus]_vars


\* ------------------------------------------------------------------ claims
Running(n) == states[n].status = "Running"
Tracked == DOMAIN pid_map
\* CommandArm is dequeuing cmd in this step.
Dequeues(op) ==
    /\ AtSelect
    /\ queue # <<>>
    /\ Head(queue).op = op
    /\ queue' = Tail(queue)

\* C1: at every event-loop boundary, for every service n: n is Running iff
\* its state holds a pid iff the reverse index maps that pid to n; no two
\* pids of the reverse index map to one name, two Running services never
\* share a pid, and the reverse index has as many entries as there are
\* Running services.
C1_TableConsistent ==
    AtSelect =>
        /\ \A n \in Configs :
            /\ Running(n) <=> states[n].pid # None
            /\ states[n].pid # None <=>
                   (states[n].pid \in Tracked /\ pid_map[states[n].pid] = n)
            /\ \A p \in Tracked : pid_map[p] = n => states[n].pid = p
        /\ \A p, q \in Tracked : pid_map[p] = pid_map[q] => p = q
        /\ \A n, m \in Configs :
               (n # m /\ Running(n) /\ Running(m)) => states[n].pid # states[m].pid
        /\ Cardinality(Tracked) = Cardinality({n \in Configs : Running(n)})

\* A Start command has just spawned "a" (so "a" was not Running before it),
\* "b" is Stopped and an orphan is a child of the manager.
C1_Witness ==
    /\ AtSelect
    /\ lastCmd.op = "Start" /\ lastCmd.name = "a" /\ lastCmd.spawn = "ok"
    /\ Running("a")
    /\ ~Running("b")
    /\ \E p \in Pids : proc[p] # "free" /\ p \notin Tracked

\* C2: every Status request a client sends on an accepted connection is
\* eventually answered with a StatusReport (the handler that awaits the
\* reply and the supervisor that must produce it do not deadlock).
C2_StatusAnswered == (pc = "await_reply") ~> (resp = "StatusReport")

\* C3: after Restart(a) was processed for a Running "a" with pid p and the old
\* process has exited and been reaped, "a" is eventually Running again with a
\* pid other than p, without any further client command (unless a client
\* connects or the supervisor is shut down first).
C3_RestartRunsAgain ==
    \A p \in Pids :
        (/\ lastCmd.op = "Restart" /\ lastCmd.name = "a" /\ lastCmd.pid = p
         /\ ~Running("a")
         /\ AtSelect)
            ~> ((Running("a") /\ states["a"].pid # p) \/ ~AtSelect)

\* C4: when a graceful-termination signal made the supervisor run the
\* shutdown coordinator, the platform power-off primitive has been invoked
\* by the time the event loop exits.
C4_SignalPowersOff ==
    (pc \in Terminal /\ cause \in TermSignals) => platform = "poweroff"

\* C5: while the supervisor is in the shutdown coordinator no command is
\* dequeued or applied and no connection is served: the queue, the record
\* of applied commands and the response are untouched and the task goes
\* nowhere but on waiting or to the post-shutdown action.
C5_NoCommandDuringShutdown ==
    [][pc = "shutdown_wait" =>
          /\ queue' = queue
          /\ lastCmd' = lastCmd
          /\ resp' = resp
          /\ cause' = cause
          /\ bcastTerm' = bcastTerm
          /\ pc' \in {"shutdown_wait"} \cup Terminal]_vars

\* The coordinator is waiting while a command sits in the queue and a
\* child-exit notification is pending.
C5_Witness == pc = "shutdown_wait" /\ queue # <<>> /\ sigchld

\* C6: a shutdown pass first sends SIGTERM to the group of every pid of the
\* reverse index; SIGKILL is sent only when the deadline fires with the
\* reverse index non-empty, only to the pids in it at that moment, each of
\* which was sent SIGTERM before; once the reverse index is empty no SIGKILL
\* is sent.
C6_TermThenKill ==
    [][/\ (cause = "none" /\ cause' # "none") =>
              (bcastTerm' = Tracked /\ bcastKill' = {})
       /\ (bcastKill' # bcastKill) =>
              /\ pc = "shutdown_wait"
              /\ Tracked # {}
              /\ bcastKill = {}
              /\ bcastKill' = Tracked
              /\ bcastKill' \subseteq bcastTerm
       /\ (Tracked = {}) => bcastKill' = bcastKill]_vars

\* The deadline fired: SIGKILL went to a tracked group that had SIGTERM.
C6_Witness == pc \in Terminal /\ bcastKill # {} /\ bcastKill \subseteq bcastTerm

\* C7: every shutdown pass terminates: once the coordinator waits it
\* eventually returns to its caller, whatever the tracked processes do and
\* whether or not a child-exit notification is ever delivered.
C7_ShutdownTerminates == (pc = "shutdown_wait") ~> (pc \in Terminal)

\* The pass returned although a tracked process never exited and no
\* child-exit notification was pending.
C7_Witness ==
    /\ pc \in Terminal
    /\ bcastKill # {}
    /\ \E p \in Tracked : proc[p] = "alive"
    /\ ~sigchld

\* C8: a handler that pushes a command while the queue holds QueueCapacity
\* commands does not wait in the push (it answers Error and returns).
C8_FullQueueDoesNotWait == pc # "send_wait"

\* C9: no accepted command is dropped: when the supervisor has stopped
\* taking events every command the queue accepted has been dequeued.
C9_NoCommandDropped == pc \in Terminal => queue = <<>>

\* C10: Start(n) applied to a Running service is a no-op: the launcher is
\* not invoked, no pid is allocated, states and reverse index are unchanged.
C10_StartRunningNoop ==
    [][(/\ Dequeues("Start")
        /\ Head(queue).name \in Configs
        /\ Running(Head(queue).name)) =>
          /\ states' = states
          /\ pid_map' = pid_map
          /\ proc' = proc
          /\ lastCmd'.spawn = "none"]_vars

\* Start("a") has been applied while "a" was Running, with a free pid at hand.
C10_Witness ==
    /\ lastCmd.op = "Start" /\ lastCmd.name = "a" /\ lastCmd.pid # None
    /\ lastCmd.spawn = "none"
    /\ Running("a")
    /\ \E p \in Pids : proc[p] = "free"

\* C11: applying Stop(n) never changes the service table.  If n is Running,
\* SIGTERM goes to the process group of n's current pid and status, pid and
\* reverse index stay as they were; if n is Stopped (or not configured) no
\* signal is sent.  kill() answering ESRCH (the group is already gone) is
\* ignored, so the step is the same whether the process still lives or not.
C11_StopOnlySignals ==
    [][Dequeues("Stop") =>
          LET n == Head(queue).name IN
              /\ states' = states
              /\ pid_map' = pid_map
              /\ proc' = proc
              /\ lastCmd'.spawn = "none"
              /\ lastCmd'.term = IF n \in Configs /\ Running(n)
                                 THEN {states[n].pid}
                                 ELSE {}]_vars

\* Stop("a") has just been applied to a Running "a" whose process had
\* already exited: the signal went to its pid and "a" is still Running.
C11_Witness ==
    /\ lastCmd.op = "Stop" /\ lastCmd.name = "a"
    /\ lastCmd.pid # None /\ lastCmd.term = {lastCmd.pid}
    /\ Running("a") /\ states["a"].pid = lastCmd.pid
    /\ pid_map[lastCmd.pid] = "a"
    /\ proc[lastCmd.pid] = "zombie"

\* A reap_zombies call in this step handled a wait status for pid p.
ReapsNow(p) ==
    /\ lastReap'.called
    /\ proc[p] # "free" /\ proc'[p] = "free"
    /\ queue' = queue /\ lastCmd' = lastCmd

\* C12: a service leaves Running, and a pid leaves the reverse index, only
\* in a step in which the reaper handles a wait status for that very pid;
\* no command and no signal broadcast does either.
C12_OnlyReaperStops ==
    [][/\ \A n \in Configs :
            (Running(n) /\ states'[n].status # "Running") => ReapsNow(states[n].pid)
       /\ \A p \in Tracked :
            p \notin DOMAIN pid_map' => ReapsNow(p)]_vars

\* Stop("a") signalled a Running "a"; its process exited afterwards and the
\* reaper, in the step into this state, marked "a" Stopped.
C12_Witness ==
    /\ AtSelect
    /\ lastCmd.op = "Stop" /\ lastCmd.name = "a" /\ lastCmd.term # {}
    /\ lastReap.called /\ lastReap.tracked >= 1
    /\ ~Running("a") /\ states["a"].pid = None
    /\ lastCmd.pid \notin Tracked /\ proc[lastCmd.pid] = "free"

\* C13: applying a Status command leaves states and the reverse index as
\* they were (the configured names never change), and the list it sends
\* holds exactly one entry per configured name, with running = (status is
\* Running) and pid = the stored pid, both read from the table the command
\* was applied to.
C13_StatusReportsTable ==
    [][StatusCall =>
          LET report == lastCmd'.report IN
              /\ states' = states
              /\ pid_map' = pid_map
              /\ proc' = proc
              /\ lastCmd'.op = "Status"
              /\ Cardinality(report) = Cardinality(Configs)
              /\ \A i \in report : i.name \in Configs
              /\ \A n \in Configs :
                    \E i \in report :
                        /\ i.name = n
                        /\ i.running = (states[n].status = "Running")
                        /\ i.pid = states[n].pid]_vars

\* Status has just been applied to a table with one Running and one Stopped
\* service; the list shows both as the table holds them.
C13_Witness ==
    /\ AtSelect
    /\ lastCmd.op = "Status"
    /\ \E i, j \in lastCmd.report :
          /\ i.running /\ i.pid # None /\ states[i.name].pid = i.pid
          /\ ~j.running /\ j.pid = None /\ states[j.name] = DefaultState

\* C14: a reaper call that finds no exited child leaves states and the
\* reverse index (and the process table) as they were; a reaper call that
\* collects only pids missing from the reverse index (orphans) leaves
\* every service's status and pid and the reverse index as they were.
C14_ReapNothingOrOrphans ==
    [][(lastReap'.called /\ lastReap'.tracked = 0) =>
          /\ states' = states
          /\ pid_map' = pid_map
          /\ (lastReap'.orphans = 0 => proc' = proc)
          /\ \A p \in Pids : proc'[p] # "zombie"]_vars

\* The reaper has just collected an orphan, and nothing else, while a
\* service is Running.
C14_Witness ==
    /\ AtSelect
    /\ lastReap.called /\ lastReap.tracked = 0 /\ lastReap.orphans >= 1
    /\ \E n \in Configs : Running(n) /\ proc[states[n].pid] = "alive"

\* The reaper has just run on a notification with no exited child behind it.
C14_WitnessNoChild ==
    /\ AtSelect
    /\ lastReap.called /\ lastReap.tracked = 0 /\ lastReap.orphans = 0
    /\ Tracked # {}

\* C15: one reaper call drains every child that has already exited, tracked
\* or orphan: after it no such pid is left unreaped or in the reverse
\* index and the service of each tracked one is Stopped with no pid, while
\* every tracked pid that is still alive keeps its entry and its service's
\* state.
C15_ReapDrainsAll ==
    [][lastReap'.called =>
          \A p \in Pids :
              /\ proc[p] = "zombie" =>
                    /\ proc'[p] = "free"
                    /\ p \notin DOMAIN pid_map'
                    /\ p \in Tracked => states'[pid_map[p]] = DefaultState
              /\ (p \in Tracked /\ proc'[p] = "alive") =>
                    /\ p \in DOMAIN pid_map'
                    /\ pid_map'[p] = pid_map[p]
                    /\ states'[pid_map[p]] = states[pid_map[p]]]_vars

\* One reaper call has just collected a service's process and an orphan
\* that had both exited before it ran.
C15_Witness ==
    /\ AtSelect
    /\ lastReap.called /\ lastReap.tracked >= 1 /\ lastReap.orphans >= 1
    /\ \A p \in Pids : proc[p] # "zombie"
    /\ \E n \in Configs : states[n] = DefaultState

\* C16: when the launcher fails for a service, at startup or on a Start
\* command, that service's status becomes Errored, with no pid and no
\* reverse-index entry.
C16_LaunchFailureErrored ==
    [][/\ \A n \in Configs :
            (pc = "startup" /\ n \in todo /\ n \notin todo' /\ states'[n].pid = None) =>
                states'[n].status = "Errored"
       /\ (Dequeues("Start") /\ lastCmd'.spawn = "err") =>
            /\ states'[Head(queue).name].status = "Errored"
            /\ states'[Head(queue).name].pid = None
            /\ pid_map' = pid_map]_vars

\* perform_shutdown has returned: the reverse index was or became empty, or
\* the deadline passed and SIGKILL was broadcast.
ShutdownPassDone ==
    /\ cause # "none"
    /\ pc # "shutdown_wait"
    /\ Tracked = {} \/ bcastKill # {}

\* C17: a platform power-off, reboot or re-exec is invoked only after a
\* shutdown pass has completed, and it is the one the command names
\* (Poweroff: power-off, Reboot: reboot, SoftReboot: re-exec); the event
\* loop, once entered, is left only after a completed shutdown pass (a
\* set-up that fails before the loop returns without one); after SoftReboot
\* the supervisor is never back at the select (the exec succeeds or it
\* panics).
C17_PlatformAfterShutdown ==
    /\ [](/\ platform # "none" => (pc \in Terminal /\ ShutdownPassDone)
          /\ platform = "poweroff" <=> (pc \in Terminal /\ cause = "Poweroff")
          /\ platform = "reboot" <=> (pc \in Terminal /\ cause = "Reboot")
          /\ platform = "exec" <=> (pc \in Terminal /\ cause = "SoftReboot")
          /\ cause = "SoftReboot" => pc \in {"shutdown_wait", "reexec", "panicked"}
          /\ cause \in {"Poweroff", "Reboot"} =>
                pc \in {"shutdown_wait", "halted", "exited"})
    /\ [][(pc \in {"select", "shutdown_wait"} /\ pc' \in Terminal) =>
              /\ cause' # "none"
              /\ DOMAIN pid_map' = {} \/ bcastKill' # {}]_vars

\* SoftReboot was applied while services ran; the pass ended at the
\* deadline and the manager was re-executed.
C17_Witness ==
    /\ pc = "reexec" /\ platform = "exec" /\ cause = "SoftReboot"
    /\ lastCmd.op = "SoftReboot"
    /\ bcastTerm # {} /\ bcastKill # {}

\* C18: connections are served concurrently with the supervisor: a tracked
\* child that has exited while a client is connected and has not written
\* its request yet is eventually reaped and its service marked Stopped.
C18_ReapedWhileClientConnected ==
    \A p \in Pids :
        (pc = "read" /\ sigchld /\ p \in Tracked /\ proc[p] = "zombie")
            ~> (p \notin Tracked)

\* C19: when the bytes read from a connection do not decode as a Request,
\* the handler writes an Error response to the client (nothing at all if
\* the client has already closed the connection), pushes no command, the
\* service table is unchanged, and the supervisor is back at its select.
C19_GarbageRejected ==
    [][\A gone \in BOOLEAN : ClientGarbage(gone) =>
          /\ resp' = IF gone THEN "none" ELSE "InvalidRequest"
          /\ queue' = queue
          /\ states' = states /\ pid_map' = pid_map /\ proc' = proc
          /\ lastCmd' = lastCmd
          /\ pc' = "select" /\ cause' = cause]_vars

\* A client has just been answered Error for undecodable bytes while a
\* service runs; nothing is queued and the supervisor is at its select.
C19_Witness ==
    /\ AtSelect
    /\ resp = "InvalidRequest"
    /\ queue = <<>>
    /\ cause = "none"
    /\ \E n \in Configs : Running(n)

\* C20: for every request but Status the response is Ok in the very step
\* in which the queue accepts the command, before the supervisor applies it
\* (table and last applied command untouched), and applying the command,
\* whatever comes of it, never changes the response.  A client that has
\* closed the connection by then is written nothing; no client is ever
\* answered Error.
C20_OkOnAcceptance ==
    [][/\ \A req \in AllRequests :
            (req.op # "Status" /\ Len(queue) < QueueCapacity
                /\ ClientRequest(req, FALSE)) => resp' = "Ok"
       /\ (pc = "read" /\ Len(queue') = Len(queue) + 1
                       /\ queue'[Len(queue')].op # "Status") =>
            /\ resp' \in {"Ok", "none"}
            /\ pc' = "select"
            /\ states' = states /\ pid_map' = pid_map /\ proc' = proc
            /\ lastCmd' = lastCmd
       /\ (AtSelect /\ queue # <<>> /\ queue' = Tail(queue)) => resp' = resp]_vars

\* Start of a service that is not configured has been answered Ok and is
\* still in the queue, not yet applied.
C20_Witness ==
    /\ AtSelect
    /\ resp = "Ok"
    /\ queue = <<Cmd("Start", Unknown)>>
    /\ lastCmd = NoCmd

\* The command answered Ok has since been applied: unknown name, no effect.
C20_WitnessApplied ==
    /\ AtSelect
    /\ resp = "Ok"
    /\ queue = <<>>
    /\ lastCmd.op = "Start" /\ lastCmd.name = Unknown /\ lastCmd.spawn = "none"

\* C21: Restart(n) has exactly the effect of Stop(n) followed at once by
\* Start(n): the table is the one Start produces from the table Stop left,
\* the signals are those of Stop.  On a Running service: SIGTERM to the
\* group of its pid, no spawn, status and pid unchanged.  On a Stopped
\* service: no signal, the launcher is called, and on success the service
\* is Running under the new pid.
C21_RestartIsStopThenStart ==
    [][Dequeues("Restart") =>
          LET n == Head(queue).name
              stop == Cmd("Stop", n)
              start == Cmd("Start", n)
          IN  /\ \E r \in SpawnOutcomes(proc) :
                    LET t1 == handle_ipc_command(stop, states, pid_map, r)
                        t2 == handle_ipc_command(start, t1.states, t1.pid_map, r)
                    IN  /\ states' = t2.states
                        /\ pid_map' = t2.pid_map
                        /\ proc' = Spawned(proc, t2, r)
                        /\ lastCmd'.spawn = t2.spawn
                        /\ lastCmd'.term = CommandSignals(stop, states)
                                              \cup CommandSignals(start, t1.states)
              /\ (n \in Configs /\ Running(n)) =>
                    /\ lastCmd'.term = {states[n].pid}
                    /\ lastCmd'.spawn = "none"
                    /\ states' = states /\ pid_map' = pid_map /\ proc' = proc
              /\ (n \in Configs /\ ~Running(n)) =>
                    /\ lastCmd'.term = {}
                    /\ lastCmd'.spawn \in {"ok", "err"}
                    /\ lastCmd'.spawn = "ok" =>
                          /\ states'[n].status = "Running"
                          /\ proc[states'[n].pid] = "free"
                          /\ proc'[states'[n].pid] = "alive"
                          /\ pid_map' = MapInsert(pid_map, states'[n].pid, n)]_vars

\* Restart("b") has just been applied to a Running "b" while a pid was
\* free: its group was signalled and "b" is still Running under the same pid.
C21_Witness ==
    /\ AtSelect
    /\ lastCmd.op = "Restart" /\ lastCmd.name = "b"
    /\ lastCmd.pid # None /\ lastCmd.term = {lastCmd.pid} /\ lastCmd.spawn = "none"
    /\ Running("b") /\ states["b"].pid = lastCmd.pid
    /\ \E p \in Pids : proc[p] = "free"

\* Restart("b") has just been applied to a Stopped "b": no signal, "b" spawned.
C21_WitnessStopped ==
    /\ AtSelect
    /\ lastCmd.op = "Restart" /\ lastCmd.name = "b"
    /\ lastCmd.pid = None /\ lastCmd.term = {} /\ lastCmd.spawn = "ok"
    /\ Running("b")

\* C22: when a shutdown pass returns without the deadline having fired (no
\* SIGKILL broadcast), the reverse index is empty and every service is
\* Stopped with no pid; when the reverse index is empty as the pass begins,
\* the pass returns in that very step: it consumes no child-exit
\* notification, reaps nothing and signals no one.
C22_GracefulShutdownStopsAll ==
    [][/\ (pc \notin Terminal /\ pc' \in Terminal /\ cause' # "none"
                                /\ bcastKill' = {}) =>
            /\ pid_map' = EmptyMap
            /\ \A n \in Configs : states'[n] = DefaultState
       /\ (cause = "none" /\ cause' # "none" /\ pid_map = EmptyMap) =>
            /\ pc' \in Terminal
            /\ bcastTerm' = {} /\ bcastKill' = {}
            /\ sigchld' = sigchld
            /\ lastReap' = NoReap
            /\ states' = states /\ pid_map' = pid_map /\ proc' = proc]_vars

\* A pass that found services running has returned before the deadline:
\* SIGTERM was broadcast, the last of them was reaped in the step into
\* this state, no SIGKILL was sent.
C22_Witness ==
    /\ pc \in Terminal
    /\ bcastTerm # {} /\ bcastKill = {}
    /\ lastReap.called /\ lastReap.tracked >= 1
    /\ pid_map = EmptyMap
    /\ \A n \in Configs : states[n] = DefaultState

\* A pass that began with an empty reverse index has returned at once, a
\* child-exit notification still pending.
C22_WitnessEmpty ==
    /\ pc \in Terminal
    /\ cause # "none"
    /\ bcastTerm = {} /\ bcastKill = {}
    /\ sigchld
    /\ lastReap = NoReap

\* C23: Start, Stop or Restart naming a service that is not configured
\* leaves states and the reverse index unchanged (the configuration never
\* changes), spawns no process and sends no signal; and at all times the
\* names of the state map are exactly the configured names.
C23_UnknownNameNoop ==
    /\ [](DOMAIN states = Configs)
    /\ [][(/\ AtSelect /\ queue # <<>> /\ queue' = Tail(queue)
           /\ Head(queue).op \in NamedOps
           /\ Head(queue).name \notin Configs) =>
              /\ states' = states
              /\ pid_map' = pid_map
              /\ proc' = proc
              /\ lastCmd'.spawn = "none"
              /\ lastCmd'.term = {}
              /\ pc' = "select"]_vars

\* Restart of a name that is not configured has just been applied while a
\* service runs and a pid is free: nothing was signalled, nothing spawned.
C23_Witness ==
    /\ AtSelect
    /\ lastCmd.op = "Restart" /\ lastCmd.name = Unknown
    /\ lastCmd.term = {} /\ lastCmd.spawn = "none"
    /\ \E n \in Configs : Running(n)
    /\ \E p \in Pids : proc[p] = "free"

====
